---- MODULE Spec2Model ----
(***************************************************************************)
(* Ljapunow-Markus diagram renderer (src/src/main.rs).                     *)
(*                                                                         *)
(* f64 values are modelled as fixed-point integers: the integer v stands   *)
(* for the real v / SCALE (SCALE = 4000 keeps 5.0e5 within TLC's integers).*)
(* Magnitudes are therefore approximate; comparisons, branches and the     *)
(* order of operations are those of the source.  ln(0) = -inf is the value *)
(* NegInf, which absorbs addition and division as IEEE -inf does.  For     *)
(* 0 <= r <= 4 the iterate x_n stays in [0,1], so no other non-finite      *)
(* value arises.                                                           *)
(***************************************************************************)
EXTENDS Integers, Sequences, FiniteSets

(* ------------------------------ bounds -------------------------------- *)
\* the image is WIDTH x HEIGHT pixels (800 x 800 in the source)
WIDTH == 2
HEIGHT == 2
\* longest command-line sequence rule that is enumerated
MaxRuleLen == 2
\* lambda samples of the colour functions: k / 100 for |k| <= MaxLambdaSteps
MaxLambdaSteps == 450

(* ------------------------- program constants -------------------------- *)
ITERATION_DEPTH == 300
WARMUP == 20
RED_SHIFT == 16
GREEN_SHIFT == 8
BLUE_SHIFT == 0

(* --------------------------- f64 arithmetic --------------------------- *)
SCALE == 4 * 10^3
NegInf == -(2^30)

\* the literal n/d
Real(n, d) == (n * SCALE) \div d
Abs(v) == IF v < 0 THEN -v ELSE v

\* a + b
AddF(l, t) == IF l = NegInf \/ t = NegInf THEN NegInf ELSE l + t
\* a * b (-inf only as b, with a > 0)
Mul(a, b) ==
    IF b = NegInf THEN NegInf
    ELSE (a \div SCALE) * b + ((a % SCALE) * b) \div SCALE
\* a / b for b > 0
Div(a, b) == IF a = NegInf THEN NegInf ELSE (a * SCALE) \div b
\* a - b for finite b
SubF(a, b) == IF a = NegInf THEN NegInf ELSE a - b

\* ln of a mantissa m in [1, 2): 2 * atanh((m - 1) / (m + 1))
LnMant(m) ==
    LET t  == Div(m - SCALE, m + SCALE)
        t2 == Mul(t, t)
        t3 == Mul(t2, t)
        t5 == Mul(t3, t2)
        t7 == Mul(t5, t2)
    IN  2 * (t + t3 \div 3 + t5 \div 5 + t7 \div 7)

RECURSIVE LnNorm(_, _)
LnNorm(m, k) ==
    IF m >= 2 * SCALE THEN LnNorm(m \div 2, k + 1)
    ELSE IF m < SCALE THEN LnNorm(2 * m, k - 1)
    ELSE k * Real(6931, 10000) + LnMant(m)

\* f64::ln of v >= 0; ln(0) = -inf
Ln(v) == IF v = 0 THEN NegInf ELSE LnNorm(v, 0)

\* f64::round: half away from zero, to an integer
Round(v) ==
    IF v >= 0 THEN (v + SCALE \div 2) \div SCALE
    ELSE -((-v + SCALE \div 2) \div SCALE)

\* f64::clamp(0.0, 255.0) as u32, of an integer-valued float
ClampByte(k) == IF k < 0 THEN 0 ELSE IF k > 255 THEN 255 ELSE k

(* --------------------------- map, map_byte ---------------------------- *)
map(val, start1, stop1, start2, stop2) ==
    AddF(start2, Mul(stop2 - start2, Div(SubF(val, start1), stop1 - start1)))

map_byte_noguard(val, start1, stop1, start2, stop2, shift) ==
    ClampByte(Round(map(val, start1, stop1, start2, stop2))) * 2^shift

map_byte(val, start1, stop1, start2, stop2, shift) ==
    IF val < start1 \/ val > stop1
    THEN 0
    ELSE ClampByte(Round(map(val, start1, stop1, start2, stop2))) * 2^shift

color_ramp(lambda) ==
    map_byte(lambda, Real(-2, 1), Real(1, 2), Real(196, 1), Real(255, 1), RED_SHIFT)
    + map_byte(lambda, Real(-1, 2), Real(0, 1), Real(0, 1), Real(255, 1), GREEN_SHIFT)
    + map_byte(lambda, Real(-5, 2), Real(1, 2), Real(10, 1), Real(55, 1), BLUE_SHIFT)

(* --------------------------- the estimator ---------------------------- *)
x_min == Real(34, 10)
x_max == Real(4, 1)
y_min == Real(25, 10)
y_max == Real(34, 10)
X0 == Real(1, 2)

\* sequence_rule mapped to values (every symbol is 'A' or 'B')
sequence(rule, a, b) == [k \in 1..Len(rule) |-> IF rule[k] = "A" THEN a ELSE b]
\* r(n) = sequence[n % seq_len], seq_len > 0
r(seq, n) == seq[(n % Len(seq)) + 1]

\* whether iteration n with iterate x adds a term to lambda
AccumulatesAnd(n, x) == n > WARMUP /\ x # X0
Accumulates(n, x) == n > WARMUP \/ x # X0
Term(seq, n, x) == Ln(Abs(Mul(r(seq, n), SCALE - 2 * x)))
Accumulate(seq, n, x, lambda) ==
    IF Accumulates(n, x) THEN AddF(lambda, Term(seq, n, x)) ELSE lambda
NextX(seq, n, x) == Mul(Mul(r(seq, n), x), SCALE - x)

\* |v| > 1e12 for a finite v (1e12 is written as 10^6 * 10^6)
Exceeds12(v) ==
    LET q  == Abs(v) \div SCALE
        hi == q \div 10^6
    IN  hi > 10^6 \/ (hi = 10^6 /\ (q % 10^6 > 0 \/ Abs(v) % SCALE > 0))
OutOfBoundsLow(lambda) == lambda = NegInf \/ (Abs(lambda) \div SCALE) >= 10^2
OutOfBounds(lambda) == lambda = NegInf \/ Exceeds12(lambda)

\* lambda / d for an integer d > 0; the sign of the quotient is the sign of lambda
Normalize(lambda, d) ==
    IF lambda = NegInf THEN NegInf
    ELSE IF lambda >= 0 THEN (lambda + d - 1) \div d
    ELSE lambda \div d

\* the loop state of one pixel: the iteration n, the iterate x, the sum lambda,
\* and whether the loop was left through the shortcut
EstStart == [n |-> 0, x |-> X0, lambda |-> 0, broke |-> FALSE]

\* one pass through the body of `for n in 0..ITERATION_DEPTH`
EstStep(seq, s) ==
    LET l2 == Accumulate(seq, s.n, s.x, s.lambda)
        x2 == NextX(seq, s.n, s.x)
    IN  IF OutOfBounds(l2)
        THEN [n |-> s.n, x |-> x2, lambda |-> l2, broke |-> TRUE]
        ELSE [n |-> s.n + 1, x |-> x2, lambda |-> l2, broke |-> FALSE]

\* `count` passes, or fewer when the shortcut is taken
RECURSIVE EstRun(_, _, _)
EstRun(seq, s, count) ==
    IF count = 0 \/ s.broke THEN s
    ELSE IF count = 1 THEN EstStep(seq, s)
    ELSE EstRun(seq, EstRun(seq, s, count \div 2), count - count \div 2)

EstLoop(seq) == EstRun(seq, EstStart, ITERATION_DEPTH)

Estimate(seq) == Normalize(EstLoop(seq).lambda, ITERATION_DEPTH - WARMUP)

(* -------------------------- color_gradient --------------------------- *)
\* 0x161c31, 0x613c62, 0xb75f74, 0xf29a6b, 0xfaec70
gradient == <<1448497, 6372450, 12017524, 15899243, 16444528>>
ranges == <<Real(-25, 10), Real(-15, 10), Real(-8, 10), Real(-2, 10), Real(0, 1), Real(4, 1)>>
\* zero-based indexing, as in the source
At(s, k) == s[k + 1]
InBounds(s, k) == k >= 0 /\ k < Len(s)

\* while pos < ranges.len() && ranges[pos] < lambda { pos += 1 }
RECURSIVE ScanPos(_, _)
ScanPos(pos, lambda) ==
    IF pos < Len(ranges) /\ At(ranges, pos) < lambda
    THEN ScanPos(pos + 1, lambda)
    ELSE pos

\* f64 as u32: truncation, saturating at 0 (map already dropped the fraction)
AsU32(v) == IF v < 0 THEN 0 ELSE v

\* the result, or panic = TRUE when gradient[..] is indexed out of bounds
color_gradient(lambda) ==
    LET pos == ScanPos(1, lambda)
    IN  IF ~InBounds(gradient, pos - 1) \/ ~InBounds(gradient, pos)
        THEN [panic |-> TRUE, pos |-> pos, color |-> 0]
        ELSE [panic |-> FALSE, pos |-> pos,
              color |-> AsU32(map(lambda, At(ranges, pos - 1), At(ranges, pos),
                                  At(gradient, pos - 1), At(gradient, pos)))]

(* ------------------------------- state -------------------------------- *)
VARIABLES
    pc,             \* where main is
    sequence_rule,  \* the rule: a sequence of symbols
    buffer,         \* the image buffer, slot -> packed colour
    i,              \* the index of the next pixel of the sweep
    lambda_min,
    lambda_max,
    window_open,    \* window.is_open()
    escape_down,    \* window.is_key_down(Key::Escape)
    printed,        \* the diagnostics printed: pairs (lambda_min, lambda_max)
    displayed,      \* the buffers handed to update_with_buffer
    lambdas,        \* history: the normalized lambda of each processed pixel
    order,          \* history: the writes (slot, colour), in the order they were made
    abortedAt,      \* history: the pixel index at which the sweep broke off, or -1
    est_seq,        \* estimator run alone: the resolved sequence
    est,            \* its loop state
    est_pc,
    est_last,       \* history: the last pass (n, x, whether a term was added)
    est_first,      \* history: the first n at which a term was added, or -1
    est_result,     \* the normalized lambda
    col_lambda,     \* colour functions run alone: the input
    col_pc,
    col_out

sweepVars == <<pc, sequence_rule, buffer, i, lambda_min, lambda_max, window_open,
               escape_down, printed, displayed, lambdas, order, abortedAt>>
estVars == <<est_seq, est, est_pc, est_last, est_first, est_result>>
colVars == <<col_lambda, col_pc, col_out>>
vars == <<sweepVars, estVars, colVars>>

NPixels == WIDTH * HEIGHT
Slots == 0..(NPixels - 1)

\* 'C' stands for any character other than 'A' and 'B'
Alphabet == {"A", "B", "C"}
DefaultRule == <<"B", "B", "B", "B", "B", "B", "A", "A", "A", "A", "A", "A">>
\* args.get(1): every string of at most MaxRuleLen characters, the empty one included
Arguments == UNION {[1..n -> Alphabet] : n \in 0..MaxRuleLen}

HasInvalidSymbol(rule) == \E k \in 1..Len(rule) : rule[k] \notin {"A", "B"}

SweepIdle ==
    /\ pc = "idle" /\ sequence_rule = <<>> /\ buffer = <<>> /\ i = 0
    /\ lambda_min = 0 /\ lambda_max = 0 /\ window_open = FALSE /\ escape_down = FALSE
    /\ printed = <<>> /\ displayed = <<>> /\ lambdas = <<>> /\ order = <<>>
    /\ abortedAt = -1
EstIdle ==
    /\ est_seq = <<>> /\ est = EstStart /\ est_pc = "idle"
    /\ est_last = [n |-> -1, x |-> X0, added |-> FALSE]
    /\ est_first = -1 /\ est_result = 0
ColIdle == col_lambda = 0 /\ col_pc = "idle" /\ col_out = 0

(* ------------------------------- main --------------------------------- *)
\* main up to the sweep: init_window, the rule, the initial min and max
Init ==
    /\ pc = "sweep"
    /\ sequence_rule \in {DefaultRule} \cup Arguments
    /\ buffer = [s \in Slots |-> 0]
    /\ i = 0
    /\ lambda_min = Real(500000, 1)
    /\ lambda_max = 0
    /\ window_open = TRUE
    /\ escape_down = FALSE
    /\ printed = <<>> /\ displayed = <<>> /\ lambdas = <<>> /\ order = <<>>
    /\ abortedAt = -1
    /\ EstIdle /\ ColIdle

Running == pc \in {"sweep", "print", "display", "wait"}
AbortRequested == ~window_open \/ escape_down

\* the user closes the window or presses or releases Escape
UserCloses ==
    /\ Running /\ window_open
    /\ window_open' = FALSE
    /\ UNCHANGED <<pc, sequence_rule, buffer, i, lambda_min, lambda_max, escape_down,
                   printed, displayed, lambdas, order, abortedAt, estVars, colVars>>
UserPressesEscape ==
    /\ Running /\ ~escape_down
    /\ escape_down' = TRUE
    /\ UNCHANGED <<pc, sequence_rule, buffer, i, lambda_min, lambda_max, window_open,
                   printed, displayed, lambdas, order, abortedAt, estVars, colVars>>
UserReleasesEscape ==
    /\ Running /\ escape_down
    /\ escape_down' = FALSE
    /\ UNCHANGED <<pc, sequence_rule, buffer, i, lambda_min, lambda_max, window_open,
                   printed, displayed, lambdas, order, abortedAt, estVars, colVars>>

\* the for loop has a next pixel / is exhausted
HasNextPixel == i < NPixels
SweepExhaustedEarly == i >= NPixels - 1
SweepExhausted == i >= NPixels

\* map pixel to world coordinates
PixelA(k) == map(Real(k % WIDTH, 1), 0, Real(WIDTH, 1), x_min, x_max)
PixelB(k) == map(Real(k \div HEIGHT, 1), 0, Real(HEIGHT, 1), y_min, y_max)

\* map to color
PixelColorNoSentinel(lambda) == color_ramp(lambda)
PixelColor(lambda) == IF lambda > 0 THEN 0 ELSE color_ramp(lambda)

\* *pixel = ..., pixel being slot k of buffer.iter_mut().enumerate()
WritePixelTransposed(buf, k, color) ==
    [buf EXCEPT ![(k % HEIGHT) * WIDTH + (k \div HEIGHT)] = color]
WritePixel(buf, k, color) == [buf EXCEPT ![k] = color]

\* the break at the head of the loop body
SweepAbort ==
    /\ pc = "sweep" /\ HasNextPixel /\ AbortRequested
    /\ pc' = "print"
    /\ abortedAt' = i
    /\ UNCHANGED <<sequence_rule, buffer, i, lambda_min, lambda_max, window_open,
                   escape_down, printed, displayed, lambdas, order, estVars, colVars>>

\* the loop body panics: a symbol of the rule is neither 'A' nor 'B'
PixelInvalidSequence ==
    /\ pc = "sweep" /\ HasNextPixel /\ ~AbortRequested
    /\ HasInvalidSymbol(sequence_rule)
    /\ pc' = "panic_invalid_sequence"
    /\ UNCHANGED <<sequence_rule, buffer, i, lambda_min, lambda_max, window_open,
                   escape_down, printed, displayed, lambdas, order, abortedAt,
                   estVars, colVars>>

\* the loop body panics: r(0) takes n % seq_len with seq_len = 0
PixelRemainderByZero ==
    /\ pc = "sweep" /\ HasNextPixel /\ ~AbortRequested
    /\ ~HasInvalidSymbol(sequence_rule)
    /\ Len(sequence_rule) = 0
    /\ pc' = "panic_remainder_by_zero"
    /\ UNCHANGED <<sequence_rule, buffer, i, lambda_min, lambda_max, window_open,
                   escape_down, printed, displayed, lambdas, order, abortedAt,
                   estVars, colVars>>

\* the loop body runs to its end for pixel i
PixelCompute ==
    /\ pc = "sweep" /\ HasNextPixel /\ ~AbortRequested
    /\ ~HasInvalidSymbol(sequence_rule)
    /\ Len(sequence_rule) > 0
    /\ LET lambda == Estimate(sequence(sequence_rule, PixelA(i), PixelB(i)))
       IN  /\ lambda_min' = IF lambda < lambda_min THEN lambda ELSE lambda_min
           /\ lambda_max' = IF lambda > lambda_max THEN lambda ELSE lambda_max
           /\ buffer' = WritePixel(buffer, i, PixelColor(lambda))
           /\ lambdas' = Append(lambdas, lambda)
           /\ order' = Append(order, [slot |-> i, color |-> PixelColor(lambda)])
    /\ i' = i + 1
    /\ UNCHANGED <<pc, sequence_rule, window_open, escape_down, printed, displayed,
                   abortedAt, estVars, colVars>>

\* the for loop ends after the last pixel
SweepEnd ==
    /\ pc = "sweep" /\ SweepExhausted
    /\ pc' = "print"
    /\ UNCHANGED <<sequence_rule, buffer, i, lambda_min, lambda_max, window_open,
                   escape_down, printed, displayed, lambdas, order, abortedAt,
                   estVars, colVars>>

\* println!("λ: ({lambda_min}..{lambda_max})")
PrintDiagnostic ==
    /\ pc = "print"
    /\ printed' = Append(printed, <<lambda_min, lambda_max>>)
    /\ pc' = "display"
    /\ UNCHANGED <<sequence_rule, buffer, i, lambda_min, lambda_max, window_open,
                   escape_down, displayed, lambdas, order, abortedAt, estVars, colVars>>

\* window.update_with_buffer(&buffer, WIDTH, HEIGHT).unwrap(): Ok, or Err and a panic
UpdateWithBuffer ==
    /\ pc = "display"
    /\ displayed' = Append(displayed, buffer)
    /\ pc' \in {"wait", "panic_update"}
    /\ UNCHANGED <<sequence_rule, buffer, i, lambda_min, lambda_max, window_open,
                   escape_down, printed, lambdas, order, abortedAt, estVars, colVars>>

\* wait for window close: the loop ends and main returns
WaitEnd ==
    /\ pc = "wait" /\ AbortRequested
    /\ pc' = "exit"
    /\ UNCHANGED <<sequence_rule, buffer, i, lambda_min, lambda_max, window_open,
                   escape_down, printed, displayed, lambdas, order, abortedAt,
                   estVars, colVars>>

\* wait for window close: one pass of the loop, window.update()
WaitUpdate ==
    /\ pc = "wait" /\ ~AbortRequested
    /\ UNCHANGED vars

Next ==
    \/ UserCloses \/ UserPressesEscape \/ UserReleasesEscape
    \/ SweepAbort \/ PixelInvalidSequence \/ PixelRemainderByZero \/ PixelCompute
    \/ SweepEnd \/ PrintDiagnostic \/ UpdateWithBuffer \/ WaitUpdate \/ WaitEnd

Spec == Init /\ [][Next]_vars

(* ----------------------- the estimator, alone ------------------------- *)
\* the values a and b are drawn from: 2.0, 2.5, 3.4, 4.0
EstParams == {Real(2, 1), Real(25, 10), Real(34, 10), Real(4, 1)}
\* the valid rules
EstRules == UNION {[1..n -> {"A", "B"}] : n \in 1..MaxRuleLen}

InitEst ==
    /\ SweepIdle /\ ColIdle
    /\ \E a \in EstParams, b \in EstParams, rule \in EstRules :
           est_seq = sequence(rule, a, b)
    /\ est = EstStart
    /\ est_pc = "loop"
    /\ est_last = [n |-> -1, x |-> X0, added |-> FALSE]
    /\ est_first = -1
    /\ est_result = 0

\* one pass of the loop body: a pass that goes on, a pass that ends with the break
EstPassUpdate ==
    /\ est' = EstStep(est_seq, est)
    /\ est_last' = [n |-> est.n, x |-> est.x,
                    added |-> Accumulates(est.n, est.x)]
    /\ est_first' = IF est_first = -1 /\ est_last'.added THEN est.n ELSE est_first
    /\ UNCHANGED <<est_seq, est_pc, est_result, sweepVars, colVars>>

EstPass ==
    /\ est_pc = "loop" /\ ~est.broke /\ est.n < ITERATION_DEPTH
    /\ ~EstStep(est_seq, est).broke
    /\ EstPassUpdate

EstShortcut ==
    /\ est_pc = "loop" /\ ~est.broke /\ est.n < ITERATION_DEPTH
    /\ EstStep(est_seq, est).broke
    /\ EstPassUpdate

\* lambda /= (ITERATION_DEPTH - WARMUP) as f64
EstNormalize ==
    /\ est_pc = "loop" /\ (est.broke \/ est.n = ITERATION_DEPTH)
    /\ est_result' = Normalize(est.lambda, ITERATION_DEPTH - WARMUP)
    /\ est_pc' = "done"
    /\ UNCHANGED <<est_seq, est, est_last, est_first, sweepVars, colVars>>

NextEst == EstPass \/ EstShortcut \/ EstNormalize

SpecEst == InitEst /\ [][NextEst]_vars

(* -------------------- the colour functions, alone --------------------- *)
\* lambda = k / 100, and -inf
LambdaSamples == {Real(k, 100) : k \in (-MaxLambdaSteps)..MaxLambdaSteps} \cup {NegInf}

InitColor ==
    /\ SweepIdle /\ EstIdle
    /\ col_lambda \in LambdaSamples
    /\ col_pc = "start"
    /\ col_out = 0

ApplyRamp ==
    /\ col_pc = "start"
    /\ col_out' = color_ramp(col_lambda)
    /\ col_pc' = "ramp"
    /\ UNCHANGED <<col_lambda, sweepVars, estVars>>

ApplyGradient ==
    /\ col_pc = "start"
    /\ ~color_gradient(col_lambda).panic
    /\ col_out' = color_gradient(col_lambda).color
    /\ col_pc' = "gradient"
    /\ UNCHANGED <<col_lambda, sweepVars, estVars>>

\* gradient[pos] with pos out of bounds
ApplyGradientPanics ==
    /\ col_pc = "start"
    /\ color_gradient(col_lambda).panic
    /\ col_pc' = "panic_index_out_of_bounds"
    /\ UNCHANGED <<col_lambda, col_out, sweepVars, estVars>>

NextColor == ApplyRamp \/ ApplyGradient \/ ApplyGradientPanics

SpecColor == InitColor /\ [][NextColor]_vars

(* ============================== claims ================================ *)
RECURSIVE SeqMin(_)
SeqMin(s) ==
    IF Len(s) = 1 THEN s[1]
    ELSE LET m == SeqMin(Tail(s)) IN IF s[1] < m THEN s[1] ELSE m
RECURSIVE SeqMax(_)
SeqMax(s) ==
    IF Len(s) = 1 THEN s[1]
    ELSE LET m == SeqMax(Tail(s)) IN IF s[1] > m THEN s[1] ELSE m
Channel(c, shift) == (c \div 2^shift) % 256
StrictlyBetween(v, p, q) == (p < v /\ v < q) \/ (q < v /\ v < p)

\* C1: a rule with a symbol other than 'A' and 'B' aborts the run before
\* anything else happens: no slot is written, no diagnostic is printed and the
\* buffer is never handed to the display, whatever the window state is.
C1_InvalidRuleAbortsBeforeAnything ==
    HasInvalidSymbol(sequence_rule) =>
        /\ order = <<>>
        /\ printed = <<>>
        /\ displayed = <<>>

\* C2: every processed pixel with lambda > 0 holds the sentinel colour 0x000000,
\* and every processed pixel with lambda <= 0 holds color_ramp(lambda).
C2_SentinelOverride ==
    \A k \in 1..Len(lambdas) :
        /\ k <= Len(order)
        /\ lambdas[k] > 0 => buffer[order[k].slot] = 0
        /\ lambdas[k] <= 0 => buffer[order[k].slot] = color_ramp(lambdas[k])

\* a sweep in which a pixel with lambda > 0 was forced to the sentinel although
\* the ramp gives it another colour, and a pixel with lambda <= 0 got its ramp colour
C2_Witness ==
    /\ \E k \in 1..Len(lambdas) :
           lambdas[k] > 0 /\ color_ramp(lambdas[k]) # 0 /\ buffer[order[k].slot] = 0
    /\ \E k \in 1..Len(lambdas) :
           lambdas[k] <= 0 /\ buffer[order[k].slot] # 0

\* C3: the written slots are a prefix of the buffer: with k writes made, they
\* went to slots 0..k-1 in this order, once each, these slots hold what was
\* written, the slots from k on hold 0, and after an abort seen before pixel
\* k no further slot is written.
C3_WrittenPrefix ==
    LET k == Len(order)
    IN  /\ k <= NPixels
        /\ \A j \in 1..k : order[j].slot = j - 1 /\ buffer[j - 1] = order[j].color
        /\ \A s \in Slots : s >= k => buffer[s] = 0
        /\ abortedAt # -1 => k = abortedAt

\* an aborted sweep that has run to the end of main with a half-written buffer
C3_Witness ==
    /\ pc = "exit"
    /\ abortedAt > 0 /\ abortedAt < NPixels
    /\ Len(order) = abortedAt
    /\ buffer[0] # 0

\* C4: the pair printed after the sweep is the minimum and the maximum of the
\* lambda of the processed pixels.
C4_DiagnosticIsObservedMinMax ==
    (printed # <<>> /\ lambdas # <<>>) =>
        printed[1] = <<SeqMin(lambdas), SeqMax(lambdas)>>

\* C5 as stated: the display gets the buffer once, after the sweep, and every
\* slot has been written by then.
C5_DisplayedOnceFullyComputed ==
    /\ Len(displayed) <= 1
    /\ displayed # <<>> => (pc # "sweep" /\ Len(order) = NPixels)

\* C5, amended: the display gets the buffer at most once, after the loop has
\* ended and never during it, and it gets the buffer as the sweep left it:
\* every slot written when the sweep was not aborted, slots 0..k-1 written when
\* it was aborted before pixel k.
C5_DisplayedOnceAfterSweep ==
    /\ Len(displayed) <= 1
    /\ pc \in {"sweep", "print", "display"} => displayed = <<>>
    /\ displayed # <<>> =>
           /\ displayed[1] = buffer
           /\ abortedAt = -1 => Len(order) = NPixels
           /\ abortedAt # -1 => Len(order) = abortedAt

\* the buffer was handed over after a sweep that was not aborted
C5_Witness ==
    /\ Len(displayed) = 1
    /\ abortedAt = -1
    /\ Len(order) = NPixels
    /\ displayed[1] = buffer

\* the expected channel of the ramp
RampChannel(lambda, lo, hi, outLo, outHi) ==
    IF lambda < lo \/ lambda > hi THEN 0
    ELSE ClampByte(Round(map(lambda, lo, hi, outLo, outHi)))

\* C6: color_ramp(lambda) is (R << 16) | (G << 8) | B with every channel in
\* 0..255, a channel being 0 outside its input interval and the rounded,
\* clamped map inside it; no carry between channels, bits 24..31 zero.
C6_RampPacking ==
    col_pc = "ramp" =>
        LET R == RampChannel(col_lambda, Real(-2, 1), Real(1, 2), Real(196, 1), Real(255, 1))
            G == RampChannel(col_lambda, Real(-1, 2), Real(0, 1), Real(0, 1), Real(255, 1))
            B == RampChannel(col_lambda, Real(-5, 2), Real(1, 2), Real(10, 1), Real(55, 1))
        IN  /\ col_out >= 0 /\ col_out < 2^24
            /\ Channel(col_out, RED_SHIFT) = R
            /\ Channel(col_out, GREEN_SHIFT) = G
            /\ Channel(col_out, BLUE_SHIFT) = B
            /\ (col_lambda < Real(-2, 1) \/ col_lambda > Real(1, 2))
                   => Channel(col_out, RED_SHIFT) = 0
            /\ (col_lambda < Real(-1, 2) \/ col_lambda > 0)
                   => Channel(col_out, GREEN_SHIFT) = 0
            /\ (col_lambda < Real(-5, 2) \/ col_lambda > Real(1, 2))
                   => Channel(col_out, BLUE_SHIFT) = 0
            /\ (col_lambda >= Real(-2, 1) /\ col_lambda <= Real(1, 2))
                   => Channel(col_out, RED_SHIFT) \in 196..255
            /\ (col_lambda >= Real(-5, 2) /\ col_lambda <= Real(1, 2))
                   => Channel(col_out, BLUE_SHIFT) \in 10..55

\* the ramp of lambda = -0.3: all three channels are inside their intervals
C6_Witness ==
    /\ col_pc = "ramp"
    /\ col_lambda = Real(-3, 10)
    /\ Channel(col_out, RED_SHIFT) > 196
    /\ Channel(col_out, GREEN_SHIFT) > 0
    /\ Channel(col_out, BLUE_SHIFT) > 10

\* C7: for lambda strictly inside the bracket (breakpoints[pos-1], breakpoints[pos]),
\* color_gradient(lambda) has each of its R, G and B channels strictly between
\* those of stops[pos-1] and stops[pos].
C7_GradientChannelsBetweenStops ==
    \A pos \in 1..(Len(ranges) - 1) :
        (/\ col_pc \in {"gradient", "panic_index_out_of_bounds"}
         /\ At(ranges, pos - 1) < col_lambda
         /\ col_lambda < At(ranges, pos)) =>
            /\ col_pc = "gradient"
            /\ \A shift \in {RED_SHIFT, GREEN_SHIFT, BLUE_SHIFT} :
                   StrictlyBetween(Channel(col_out, shift),
                                   Channel(At(gradient, pos - 1), shift),
                                   Channel(At(gradient, pos), shift))

\* C8 as stated: no term is added to lambda at an iteration n < WARMUP.
C8_NoTermDuringWarmup ==
    est_last.added => est_last.n >= WARMUP

\* C8, amended: a pass adds no term exactly when n <= WARMUP and x_n = 0.5; this
\* is so at n = 0, and unless r(0) = 2.0 the first term is added at n = 1.
C8_TermSkippedOnlyAtFixedPoint ==
    /\ est_last.n >= 0 =>
           (est_last.added <=> (est_last.n > WARMUP \/ est_last.x # X0))
    /\ est_first # 0
    /\ (est.n >= 2 /\ est_seq[1] # Real(2, 1)) => est_first = 1

\* a loop whose first term was added at n = 1 and which adds one at n = WARMUP - 1
C8_Witness ==
    /\ est_first = 1
    /\ est_last.n = WARMUP - 1
    /\ est_last.added

FourFour == <<Real(4, 1), Real(4, 1)>>

\* C9 as stated: for a = b = 4.0 and a rule of period 2 the loop is left through
\* the shortcut at some n < ITERATION_DEPTH - 1, and the sum is divided by
\* ITERATION_DEPTH - WARMUP.
C9_EarlyExitAtFour ==
    (est_pc = "done" /\ est_seq = FourFour) =>
        /\ est.broke
        /\ est.n < ITERATION_DEPTH - 1
        /\ est_result = Normalize(est.lambda, ITERATION_DEPTH - WARMUP)

\* C9, amended: for a = b = 4.0 and a rule of period 2 the loop is never left
\* through the shortcut: it runs all ITERATION_DEPTH passes, the sum is
\* (ITERATION_DEPTH - 1) * ln 4, and the sum is divided by ITERATION_DEPTH - WARMUP.
C9_NoEarlyExitAtFour ==
    (est_pc = "done" /\ est_seq = FourFour) =>
        /\ ~est.broke
        /\ est.n = ITERATION_DEPTH
        /\ est.lambda = (ITERATION_DEPTH - 1) * Ln(Real(4, 1))
        /\ (est_result - 1) * (ITERATION_DEPTH - WARMUP) < est.lambda
        /\ est.lambda <= est_result * (ITERATION_DEPTH - WARMUP)

\* the estimator has finished for a = b = 4.0 with a rule of period 2
C9_Witness ==
    /\ est_pc = "done"
    /\ est_seq = FourFour
    /\ est.n = ITERATION_DEPTH
    /\ est_result > 0

\* C10: the rule the sweep uses has length >= 1: r(n) never takes a remainder
\* by a length of 0.
C10_RuleNeverEmpty ==
    /\ pc # "panic_remainder_by_zero"
    /\ lambdas # <<>> => Len(sequence_rule) >= 1
====
